---- MODULE Spec2Model ----
(***************************************************************************)
(* Model of the markdown preview renderer of sticky_notes.py: TableParser  *)
(* (table detection, cell parsing, display-width estimation, padding and   *)
(* box formatting) and StickyNote.update_preview /                         *)
(* parse_inline_formatting, driven by the editor's "changed" signal.       *)
(*                                                                         *)
(* A Python str is modelled as a sequence of characters, each character a  *)
(* one-element token.  ASCII characters stand for themselves; the others   *)
(* are written by code point: "U+1F600" (an emoji, category So), "U+4E2D"  *)
(* (a CJK ideograph, East Asian width W), "U+2500".."U+253C" (the box      *)
(* drawing characters of format_table), "U+0060" (the backtick), "\n" the  *)
(* line feed.                                                              *)
(***************************************************************************)
EXTENDS Integers, Sequences, FiniteSets, TLC

VARIABLES
    text_buffer,     \* StickyNote.text_buffer: the editor text
    preview_buffer,  \* StickyNote.preview_buffer: sequence of [ch, tags]
    title,           \* the window title set by on_text_changed
    timeout_id,      \* StickyNote.timeout_id: "None" or "pending"
    call,            \* the TableParser static method applied, its arguments and result
    windows,         \* the global list windows: [cls, obj] per window appended
    open_notes,      \* the global dict open_notes: note number -> StickyNote, 0 for no key
    manager_instance,\* the global manager_instance: a NoteManager, 0 for None
    tray_icon,       \* the global tray_icon: TRUE for an icon, FALSE for None
    sticky_notes,    \* the StickyNote objects of the process, in order of construction
    glib,            \* the GLib main loop: running, its timeout sources, the last source id
    disk             \* ~/.sticky_notes: text.md per note directory, session.json

\* the state of the application process and of its data directory
app_vars == <<windows, open_notes, manager_instance, tray_icon, sticky_notes, glib, disk>>

vars == <<text_buffer, preview_buffer, title, timeout_id, call, app_vars>>

------------------------------------------------------------------------------
(* Python str primitives *)

Min(a, b) == IF a < b THEN a ELSE b
Max(a, b) == IF a > b THEN a ELSE b

NL == "\n"
STAR == "*"
PIPE == "|"

\* str.isspace for the characters of the model
IsSpace(c) == c \in {" ", "\t"}

RECURSIVE lstrip(_)
lstrip(s) == IF s # <<>> /\ IsSpace(Head(s)) THEN lstrip(Tail(s)) ELSE s

RECURSIVE rstrip(_)
rstrip(s) ==
    IF s # <<>> /\ IsSpace(s[Len(s)]) THEN rstrip(SubSeq(s, 1, Len(s) - 1)) ELSE s

\* str.strip()
strip(s) == rstrip(lstrip(s))

\* s.startswith(p, pos) with pos 1-based
startswith(s, p, pos) ==
    /\ pos + Len(p) - 1 <= Len(s)
    /\ \A k \in 1..Len(p) : s[pos + k - 1] = p[k]

\* s.endswith(p)
endswith(s, p) ==
    /\ Len(p) <= Len(s)
    /\ \A k \in 1..Len(p) : s[Len(s) - Len(p) + k] = p[k]

\* s.find(p, start) with 1-based positions; 0 stands for Python's -1
find(s, p, start) ==
    LET hits == {k \in start..(Len(s) - Len(p) + 1) : startswith(s, p, k)}
    IN  IF hits = {} THEN 0 ELSE CHOOSE k \in hits : \A m \in hits : k <= m

\* p in s
contains(s, p) == find(s, p, 1) # 0

\* s.count(c) for a single character c
count(s, c) == Cardinality({k \in 1..Len(s) : s[k] = c})

\* s.split(c) for a single character c
RECURSIVE split(_, _)
split(s, c) ==
    LET k == find(s, <<c>>, 1)
    IN  IF k = 0 THEN <<s>>
        ELSE <<SubSeq(s, 1, k - 1)>> \o split(SubSeq(s, k + 1, Len(s)), c)

\* sep.join(parts)
RECURSIVE join(_, _)
join(sep, parts) ==
    IF parts = <<>> THEN <<>>
    ELSE IF Len(parts) = 1 THEN parts[1]
    ELSE parts[1] \o sep \o join(sep, Tail(parts))

\* c * n
Repeat(c, n) == [k \in 1..n |-> c]

------------------------------------------------------------------------------
(* unicodedata, restricted to the characters of the model *)

\* unicodedata.category(ch)
category(ch) ==
    CASE ch \in {"U+1F600", "U+2500", "U+2502", "U+250C", "U+2510", "U+2514",
                 "U+2518", "U+251C", "U+2524", "U+252C", "U+2534", "U+253C"} -> "So"
      [] ch \in {"+", "|", "<", "="} -> "Sm"
      [] ch \in {"$"} -> "Sc"
      [] ch \in {"U+4E2D"} -> "Lo"
      [] ch \in {"*", "#", ":"} -> "Po"
      [] ch \in {"-"} -> "Pd"
      [] ch \in {"_"} -> "Pc"
      [] ch \in {"U+0060"} -> "Sk"
      [] ch \in {" "} -> "Zs"
      [] ch \in {"\n", "\t"} -> "Cc"
      [] ch \in {"0", "1", "2", "3", "4", "5", "6", "7", "8", "9"} -> "Nd"
      [] OTHER -> "Ll"

\* unicodedata.east_asian_width(ch)
east_asian_width(ch) ==
    CASE ch \in {"U+4E2D", "U+1F600"} -> "W"
      [] ch \in {"U+2500", "U+2502", "U+250C", "U+2510", "U+2514", "U+2518",
                 "U+251C", "U+2524", "U+252C", "U+2534", "U+253C"} -> "A"
      [] ch \in {"\n", "\t"} -> "N"
      [] OTHER -> "Na"

------------------------------------------------------------------------------
(* class TableParser *)

is_table_line(line) ==
    LET stripped == strip(line)
    IN  /\ startswith(stripped, <<PIPE>>, 1)
        /\ endswith(stripped, <<PIPE>>)
        /\ count(stripped, PIPE) >= 2

\* re.match(r'^:?-+:?$', cell)
MatchSeparatorCell(cell) ==
    LET lo == IF cell # <<>> /\ cell[1] = ":" THEN 2 ELSE 1
        hi == IF cell # <<>> /\ cell[Len(cell)] = ":" THEN Len(cell) - 1 ELSE Len(cell)
    IN  /\ lo <= hi
        /\ \A k \in lo..hi : cell[k] = "-"

is_separator_line(line) ==
    LET stripped == strip(line)
        content == SubSeq(stripped, 2, Len(stripped) - 1)
        cells == split(content, PIPE)
    IN  /\ is_table_line(line)
        /\ \A k \in 1..Len(cells) :
               strip(cells[k]) = <<>> \/ MatchSeparatorCell(strip(cells[k]))

parse_table_cells(line) ==
    LET stripped == strip(line)
        content == SubSeq(stripped, 2, Len(stripped) - 1)
        cells == split(content, PIPE)
    IN  IF ~startswith(stripped, <<PIPE>>, 1) \/ ~endswith(stripped, <<PIPE>>)
        THEN <<>>
        ELSE [k \in 1..Len(cells) |-> strip(cells[k])]

\* the alignment of a separator cell with Center and Right exchanged
AlignmentOfSwapped(cell0) ==
    LET cell == strip(cell0)
    IN  IF startswith(cell, <<":">>, 1) /\ endswith(cell, <<":">>) THEN "right"
        ELSE IF endswith(cell, <<":">>) THEN "center"
        ELSE "left"

AlignmentOf(cell0) ==
    LET cell == strip(cell0)
    IN  IF startswith(cell, <<":">>, 1) /\ endswith(cell, <<":">>) THEN "center"
        ELSE IF endswith(cell, <<":">>) THEN "right"
        ELSE "left"

get_column_alignments(separator_line) ==
    LET cells == parse_table_cells(separator_line)
    IN  [k \in 1..Len(cells) |-> AlignmentOf(cells[k])]

\* EmphasisMatchEnd with [^*]* for [^*]+: an empty span matches too
EmphasisMatchEndEmptySpan(s, n, i) ==
    LET stars == {k \in (i + n)..Len(s) : s[k] = STAR}
        k == IF stars = {} THEN Len(s) + 1
             ELSE CHOOSE x \in stars : \A y \in stars : x <= y
    IN  IF /\ startswith(s, Repeat(STAR, n), i)
           /\ k >= i + n
           /\ startswith(s, Repeat(STAR, n), k)
        THEN k + n - 1
        ELSE 0

\* Where a match of \*{n}([^*]+)\*{n} that starts at i ends (the index of its
\* last character), 0 when there is none: n stars, the maximal run of
\* non-star characters, which must not be empty, then n stars.
EmphasisMatchEnd(s, n, i) ==
    LET stars == {k \in (i + n)..Len(s) : s[k] = STAR}
        k == IF stars = {} THEN Len(s) + 1
             ELSE CHOOSE x \in stars : \A y \in stars : x <= y
    IN  IF /\ startswith(s, Repeat(STAR, n), i)
           /\ k > i + n
           /\ startswith(s, Repeat(STAR, n), k)
        THEN k + n - 1
        ELSE 0

\* re.sub(r'\*{n}([^*]+)\*{n}', r'\1', s), scanning from position i
RECURSIVE StripEmphasisFrom(_, _, _)
StripEmphasisFrom(s, n, i) ==
    IF i > Len(s) THEN <<>>
    ELSE LET m == EmphasisMatchEnd(s, n, i)
         IN  IF m = 0 THEN <<s[i]>> \o StripEmphasisFrom(s, n, i + 1)
             ELSE SubSeq(s, i + n, m - n) \o StripEmphasisFrom(s, n, m + 1)

StripEmphasis(s, n) == StripEmphasisFrom(s, n, 1)

\* the width of one character with a Symbol-other character counted as 1
CharWidth2SoAsOne(ch) ==
    IF category(ch) = "So" THEN 2
    ELSE IF category(ch) = "Sm" THEN 3
    ELSE IF category(ch) = "Sc" THEN 3
    ELSE IF east_asian_width(ch) \in {"F", "W"} THEN 4
    ELSE 2

\* twice the width one character adds in estimate_display_width (1.5 -> 3)
CharWidth2(ch) ==
    IF category(ch) = "So" THEN 4
    ELSE IF category(ch) = "Sm" THEN 3
    ELSE IF category(ch) = "Sc" THEN 3
    ELSE IF east_asian_width(ch) \in {"F", "W"} THEN 4
    ELSE 2

RECURSIVE SumWidth2(_)
SumWidth2(s) == IF s = <<>> THEN 0 ELSE CharWidth2(Head(s)) + SumWidth2(Tail(s))

\* estimate_display_width taking the markers off the width instead of
\* stripping them from the text
estimate_display_width_less_markers(text) ==
    IF text = <<>> THEN 0
    ELSE (SumWidth2(text) \div 2) - 2 * count(text, STAR)

estimate_display_width(text) ==
    IF text = <<>> THEN 0
    ELSE LET clean == StripEmphasis(StripEmphasis(text, 2), 1)
         IN  SumWidth2(clean) \div 2

\* the branches of pad_text with the odd space of Center put on the left
PadWithOddLeft(text, padding_needed, align) ==
    LET right_pad == padding_needed \div 2
        left_pad == padding_needed - right_pad
    IN  IF align = "center" THEN Repeat(" ", left_pad) \o text \o Repeat(" ", right_pad)
        ELSE IF align = "right" THEN Repeat(" ", padding_needed) \o text
        ELSE text \o Repeat(" ", padding_needed)

\* the three branches of pad_text, given padding_needed
PadWith(text, padding_needed, align) ==
    LET left_pad == padding_needed \div 2
        right_pad == padding_needed - left_pad
    IN  IF align = "center" THEN Repeat(" ", left_pad) \o text \o Repeat(" ", right_pad)
        ELSE IF align = "right" THEN Repeat(" ", padding_needed) \o text
        ELSE text \o Repeat(" ", padding_needed)

\* pad_text measuring the text by len() instead of estimate_display_width
pad_text_by_len(text, width, align) ==
    PadWith(text, Max(0, width - Len(text)), align)

\* pad_text cutting the text to the column width before padding it
pad_text_truncating(text, width, align) ==
    PadWith(SubSeq(text, 1, Min(Len(text), width)),
            Max(0, width - estimate_display_width(SubSeq(text, 1, Min(Len(text), width)))),
            align)

pad_text(text, width, align) ==
    PadWith(text, Max(0, width - estimate_display_width(text)), align)

\* the while loops of format_table that append "" / 'left' up to max_cols
PadTo(row, n, fill) == row \o Repeat(fill, Max(0, n - Len(row)))

\* the running maximum of a loop that starts from 0
MaxOf(S) == IF S = {} THEN 0 ELSE CHOOSE x \in S : \A y \in S : x >= y

\* the "Pad rows" step of format_table: header_cells, alignments and data_rows
\* as they stand when the widths are computed
PaddedTable(header0, align0, data0, max_cols) ==
    [header_cells |-> PadTo(header0, max_cols, <<>>),
     alignments |-> PadTo(align0, max_cols, "left"),
     data_rows |-> [k \in 1..Len(data0) |-> PadTo(data0[k], max_cols, <<>>)],
     max_cols |-> max_cols]

\* max_cols of format_table and the padding to it
ReconciledTable(header0, align0, data0) ==
    PaddedTable(header0, align0, data0,
                Max(Len(header0), MaxOf({Len(data0[k]) : k \in 1..Len(data0)})))

\* data_rows of format_table: the table lines from data_start on, parsed
DataRows(lines, data_start) ==
    LET kept == SelectSeq([k \in 1..(Len(lines) - data_start + 1) |->
                               lines[data_start + k - 1]], is_table_line)
    IN  [k \in 1..Len(kept) |-> parse_table_cells(kept[k])]

\* format_table keeping the separator line among the data rows
TableFromSeparatorAsData(lines, header0, sep) ==
    ReconciledTable(header0,
                    IF sep THEN get_column_alignments(lines[2])
                    ELSE Repeat("left", Len(header0)),
                    DataRows(lines, 2))

\* format_table from "Check if second line is separator" on
TableFrom(lines, header0, sep) ==
    ReconciledTable(header0,
                    IF sep THEN get_column_alignments(lines[2])
                    ELSE Repeat("left", Len(header0)),
                    DataRows(lines, IF sep THEN 3 ELSE 2))

\* format_table up to the "Pad rows" step
TableOf(lines) == TableFrom(lines, parse_table_cells(lines[1]), is_separator_line(lines[2]))

\* col_widths without the minimum width
WidthsOfRowsWithoutMinimum(all_rows, max_cols) ==
    [c \in 1..max_cols |->
        MaxOf({estimate_display_width(all_rows[r][c]) :
                  r \in {q \in 1..Len(all_rows) : c <= Len(all_rows[q])}})]

\* col_widths of format_table
WidthsOfRows(all_rows, max_cols) ==
    [c \in 1..max_cols |->
        Max(MaxOf({estimate_display_width(all_rows[r][c]) :
                      r \in {q \in 1..Len(all_rows) : c <= Len(all_rows[q])}}),
            3)]

ColWidths(t) == WidthsOfRows(<<t.header_cells>> \o t.data_rows, t.max_cols)

\* left + mid.join(parts) + right
BoxLine(left, mid, right, parts) == <<left>> \o join(<<mid>>, parts) \o <<right>>

BorderParts(col_widths) ==
    [c \in 1..Len(col_widths) |-> Repeat("U+2500", col_widths[c] + 2)]

\* the header row: zip(header_cells, col_widths, alignments) stops at the shortest
HeaderParts(t, col_widths) ==
    LET n == Min(Len(t.header_cells), Min(Len(col_widths), Len(t.alignments)))
    IN  [c \in 1..n |->
            <<" ">> \o pad_text(t.header_cells[c], col_widths[c], t.alignments[c]) \o <<" ">>]

RowParts(t, col_widths, row) ==
    [c \in 1..Len(col_widths) |->
        LET cell == IF c <= Len(row) THEN row[c] ELSE <<>>
            align == IF c <= Len(t.alignments) THEN t.alignments[c] ELSE "left"
        IN  <<" ">> \o pad_text(cell, col_widths[c], align) \o <<" ">>]

\* the list `result` of format_table, one entry per output line
BoxRows(t, col_widths) ==
        <<BoxLine("U+250C", "U+252C", "U+2510", BorderParts(col_widths))>>
        \o <<BoxLine("U+2502", "U+2502", "U+2502", HeaderParts(t, col_widths))>>
        \o <<BoxLine("U+251C", "U+253C", "U+2524", BorderParts(col_widths))>>
        \o [k \in 1..Len(t.data_rows) |->
               BoxLine("U+2502", "U+2502", "U+2502", RowParts(t, col_widths, t.data_rows[k]))]
        \o <<BoxLine("U+2514", "U+2534", "U+2518", BorderParts(col_widths))>>

RowsOfTable(t) == BoxRows(t, ColWidths(t))

FormatTableRows(lines) == RowsOfTable(TableOf(lines))

format_table(lines) ==
    IF lines = <<>> THEN <<>>
    ELSE IF Len(lines) < 2 THEN <<>>
    ELSE join(<<NL>>, FormatTableRows(lines))

------------------------------------------------------------------------------
(* class StickyNote: the preview buffer and the renderer *)

\* Gtk.TextBuffer.insert(end, text): characters without tags
insert(buf, text) == buf \o [k \in 1..Len(text) |-> [ch |-> text[k], tags |-> {}]]

\* Gtk.TextBuffer.insert_with_tags(end, text, tag)
insert_with_tags(buf, text, tag) ==
    buf \o [k \in 1..Len(text) |-> [ch |-> text[k], tags |-> {tag}]]

\* apply_tag_to_last: backward_chars(length) from the end, then apply_tag
apply_tag_to_last(buf, tag, length) ==
    [k \in 1..Len(buf) |->
        IF k > Len(buf) - length
        THEN [ch |-> buf[k].ch, tags |-> buf[k].tags \cup {tag}]
        ELSE buf[k]]

\* update_preview without the clearing of the preview
KeepPreview(buf) == buf

\* preview_buffer.set_text("")
ClearPreview(buf) == <<>>

\* the cursor loop with the italic test made first and without its "**" guard
RECURSIVE InlineFromItalicFirst(_, _, _)
InlineFromItalicFirst(line, pos, buf) ==
    IF pos > Len(line) THEN insert(buf, <<NL>>)
    ELSE
        LET bold_end == find(line, <<STAR, STAR>>, pos + 2)
            ital_end == find(line, <<STAR>>, pos + 1)
        IN  IF startswith(line, <<STAR>>, pos) /\ ital_end # 0
            THEN LET inner == SubSeq(line, pos + 1, ital_end - 1)
                 IN  InlineFromItalicFirst(line, ital_end + 1,
                         apply_tag_to_last(insert(buf, inner), "italic", Len(inner)))
            ELSE IF startswith(line, <<STAR, STAR>>, pos) /\ bold_end # 0
            THEN LET inner == SubSeq(line, pos + 2, bold_end - 1)
                 IN  InlineFromItalicFirst(line, bold_end + 2,
                         apply_tag_to_last(insert(buf, inner), "bold", Len(inner)))
            ELSE InlineFromItalicFirst(line, pos + 1, insert(buf, <<line[pos]>>))

\* the cursor loop dropping a delimiter that has no closing match
RECURSIVE InlineFromDroppingUnmatched(_, _, _)
InlineFromDroppingUnmatched(line, pos, buf) ==
    IF pos > Len(line) THEN insert(buf, <<NL>>)
    ELSE
        LET bold_end == find(line, <<STAR, STAR>>, pos + 2)
            ital_end == find(line, <<STAR>>, pos + 1)
        IN  IF startswith(line, <<STAR, STAR>>, pos) /\ bold_end # 0
            THEN LET inner == SubSeq(line, pos + 2, bold_end - 1)
                 IN  InlineFromDroppingUnmatched(line, bold_end + 2,
                         apply_tag_to_last(insert(buf, inner), "bold", Len(inner)))
            ELSE IF /\ startswith(line, <<STAR>>, pos)
                    /\ ~startswith(line, <<STAR, STAR>>, pos)
                    /\ ital_end # 0
            THEN LET inner == SubSeq(line, pos + 1, ital_end - 1)
                 IN  InlineFromDroppingUnmatched(line, ital_end + 1,
                         apply_tag_to_last(insert(buf, inner), "italic", Len(inner)))
            ELSE IF line[pos] = STAR
            THEN InlineFromDroppingUnmatched(line, pos + 1, buf)
            ELSE InlineFromDroppingUnmatched(line, pos + 1, insert(buf, <<line[pos]>>))

\* the cursor loop of parse_inline_formatting, from position pos
RECURSIVE InlineFrom(_, _, _)
InlineFrom(line, pos, buf) ==
    IF pos > Len(line) THEN insert(buf, <<NL>>)
    ELSE
        LET bold_end == find(line, <<STAR, STAR>>, pos + 2)
            ital_end == find(line, <<STAR>>, pos + 1)
        IN  IF startswith(line, <<STAR, STAR>>, pos) /\ bold_end # 0
            THEN LET inner == SubSeq(line, pos + 2, bold_end - 1)
                 IN  InlineFrom(line, bold_end + 2,
                                apply_tag_to_last(insert(buf, inner), "bold", Len(inner)))
            ELSE IF /\ startswith(line, <<STAR>>, pos)
                    /\ ~startswith(line, <<STAR, STAR>>, pos)
                    /\ ital_end # 0
            THEN LET inner == SubSeq(line, pos + 1, ital_end - 1)
                 IN  InlineFrom(line, ital_end + 1,
                                apply_tag_to_last(insert(buf, inner), "italic", Len(inner)))
            ELSE InlineFrom(line, pos + 1, insert(buf, <<line[pos]>>))

parse_inline_formatting(line, buf) == InlineFrom(line, 1, buf)

\* "Regular markdown parsing" of one line of update_preview
RenderLine(line, buf) ==
    IF startswith(line, <<"#", " ">>, 1)
    THEN insert_with_tags(buf, SubSeq(line, 3, Len(line)) \o <<NL>>, "header")
    ELSE IF startswith(line, <<"#", "#", " ">>, 1)
    THEN insert_with_tags(buf, SubSeq(line, 4, Len(line)) \o <<NL>>, "header")
    ELSE IF contains(line, <<STAR, STAR>>) \/ contains(line, <<STAR>>)
    THEN parse_inline_formatting(line, buf)
    ELSE insert(buf, line \o <<NL>>)

\* the end of a table run that takes two lines of the run at most
TableRunEndOfPair(preview_lines, i) ==
    IF i + 1 <= Len(preview_lines) /\ is_table_line(preview_lines[i + 1])
    THEN i + 2 ELSE i + 1

\* the index j at which the table run that starts at line i ends (exclusive)
TableRunEnd(preview_lines, i) ==
    LET stops == {j \in (i + 1)..Len(preview_lines) : ~is_table_line(preview_lines[j])}
    IN  IF stops = {} THEN Len(preview_lines) + 1
        ELSE CHOOSE j \in stops : \A m \in stops : j <= m

\* if formatted_table: insert_with_tags(formatted_table + "\n\n", monospace_tag)
InsertTable(formatted_table, buf) ==
    IF formatted_table # <<>>
    THEN insert_with_tags(buf, formatted_table \o <<NL, NL>>, "monospace")
    ELSE buf

\* what update_preview does with the table run preview_lines[i..j-1]
RenderTable(table_lines, buf) ==
    IF Len(table_lines) >= 2 THEN InsertTable(format_table(table_lines), buf) ELSE buf

\* the block loop of update_preview, from line index i
RECURSIVE RenderFrom(_, _, _)
RenderFrom(preview_lines, i, buf) ==
    IF i > Len(preview_lines) THEN buf
    ELSE IF is_table_line(preview_lines[i])
    THEN LET j == TableRunEnd(preview_lines, i)
         IN  RenderFrom(preview_lines, j,
                        RenderTable(SubSeq(preview_lines, i, j - 1), buf))
    ELSE RenderFrom(preview_lines, i + 1, RenderLine(preview_lines[i], buf))

\* the preview lines with only the first line of the text left out
PreviewLinesFromSecond(text) ==
    LET lines == split(text, NL)
    IN  IF Len(lines) > 1 THEN SubSeq(lines, 2, Len(lines)) ELSE <<>>

\* lines[2:] if len(lines) > 2 else []
PreviewLines(text) ==
    LET lines == split(text, NL)
    IN  IF Len(lines) > 2 THEN SubSeq(lines, 3, Len(lines)) ELSE <<>>

\* update_preview: the preview buffer it leaves, given the editor text and
\* the preview buffer it finds
update_preview(text, buf) == RenderFrom(PreviewLines(text), 1, ClearPreview(buf))

------------------------------------------------------------------------------
(* The application process and its data directory *)

\* the most note directories create_new_note makes: note1 .. note<MaxNotes>
MaxNotes == 1

\* the most StickyNote windows a process constructs after its start
MaxWindows == 2

\* the most sources a process adds with GLib.timeout_add_seconds
MaxTimers == 2

\* the most NoteManager windows a process shows
MaxManagers == 1

NoteIds == 1..MaxNotes

\* a note directory that does not exist
NoDir == [exists |-> FALSE, text |-> <<>>]

\* no process runs and the data directory is empty: the state the
\* specifications of one note and of the static methods leave untouched
NoProcess ==
    /\ windows = <<>>
    /\ open_notes = [n \in NoteIds |-> 0]
    /\ manager_instance = 0
    /\ tray_icon = FALSE
    /\ sticky_notes = <<>>
    /\ glib = [running |-> FALSE, sources |-> <<>>, last_id |-> 0]
    /\ disk = [text_md |-> [n \in NoteIds |-> NoDir], session |-> <<>>]

------------------------------------------------------------------------------
(* The editor: create_new_note, StickyNote.__init__ and the "changed" signal *)

\* the content create_new_note writes to text.md: "New Note\n\n"
NewNoteText == <<"N", "e", "w", " ", "N", "o", "t", "e", NL, NL>>

FENCE == <<"U+0060", "U+0060", "U+0060">>

\* the lines the user types into the body of the note
LinePool ==
    { <<"|", "a", "|", "b", "|">>,
      <<"|", "-", "|", ":", "-", ":", "|">>,
      <<"|", "*", "a", "*", "|", "U+1F600", "|">>,
      <<"#", " ", "T">>,
      <<"#", "#", " ", "T">>,
      <<"#", "#", "#", " ", "T">>,
      FENCE,
      <<"c">>,
      <<"_", "_", "x", "_", "_">>,
      <<"_", "x", "_">>,
      <<"*", "*", "b", "*", "*", " ", "*", "i", "*">> }

\* the lines the user types into the two title lines
TitlePool == { <<"|", "a", "|", "b", "|">> }

\* the most lines the editor text is given
MaxLines == 5

NumLines(text) == Len(split(text, NL))

\* the title on_text_changed gives the window: the first line, or "Untitled"
TitleOf(text) ==
    LET first_line == split(text, NL)[1]
    IN  IF first_line # <<>> THEN first_line
        ELSE <<"U", "n", "t", "i", "t", "l", "e", "d">>

\* load_content's title: lines[0] if lines and lines[0].strip() else "Untitled"
LoadedTitleOf(content) ==
    LET first_line == split(content, NL)[1]
    IN  IF content # <<>> /\ strip(first_line) # <<>> THEN first_line
        ELSE <<"U", "n", "t", "i", "t", "l", "e", "d">>

NoCall == [fn |-> "none"]

\* create_new_note: text.md holds NewNoteText, StickyNote.__init__ sets
\* timeout_id = None and load_content fills both buffers and the title
Init ==
    /\ text_buffer = NewNoteText
    /\ preview_buffer = update_preview(NewNoteText, <<>>)
    /\ title = LoadedTitleOf(NewNoteText)
    /\ timeout_id = "None"
    /\ call = NoCall
    /\ NoProcess

\* on_text_changed, run by the buffer's "changed" signal once the buffer holds text
on_text_changed(text) ==
    /\ text_buffer' = text
    /\ title' = TitleOf(text)
    /\ preview_buffer' = update_preview(text, preview_buffer)
    /\ timeout_id' = "pending"
    /\ UNCHANGED <<call, app_vars>>

\* the user types a line at the end of the text, the cursor on an empty last line
InsertLine(l) ==
    /\ IF text_buffer = <<>> THEN TRUE ELSE text_buffer[Len(text_buffer)] = NL
    /\ on_text_changed(text_buffer \o l)

\* the user presses Enter at the end of the text
PressEnter ==
    /\ NumLines(text_buffer) < MaxLines
    /\ on_text_changed(text_buffer \o <<NL>>)

\* the user deletes the last line: its text or, when it is empty, its line break
DeleteLast ==
    /\ text_buffer # <<>>
    /\ LET n == Len(text_buffer)
           breaks == {k \in 1..n : text_buffer[k] = NL}
           cut == IF text_buffer[n] = NL THEN n - 1 ELSE MaxOf(breaks)
       IN  on_text_changed(SubSeq(text_buffer, 1, cut))

Next ==
    \/ \E l \in IF NumLines(text_buffer) <= 2 THEN TitlePool ELSE LinePool : InsertLine(l)
    \/ PressEnter
    \/ DeleteLast

Spec == Init /\ [][Next]_vars

------------------------------------------------------------------------------
(* TableParser's static methods applied to drawn arguments *)

\* the longest string given to estimate_display_width
MaxStrLen == 3

\* the most lines given to format_table
MaxTableLines == 3

RECURSIVE StringsUpTo(_, _)
StringsUpTo(A, n) ==
    IF n = 0 THEN {<<>>}
    ELSE LET S == StringsUpTo(A, n - 1)
         IN  S \cup {Append(t, c) : t \in {u \in S : Len(u) = n - 1}, c \in A}

RECURSIVE ListsUpTo(_, _)
ListsUpTo(P, n) ==
    IF n = 0 THEN {<<>>}
    ELSE LET S == ListsUpTo(P, n - 1)
         IN  S \cup {Append(t, l) : t \in {u \in S : Len(u) = n - 1}, l \in P}

\* a marker, a letter, a math symbol (width 1.5) and an emoji (width 2)
EstimateAlphabet == {STAR, "a", "+", "U+1F600"}

\* the lines format_table is given: table rows with plain, emphasised, wide,
\* emoji, math, currency and empty cells, separator rows, and lines that are
\* no table lines
TableLinePool ==
    { <<"|", "a", "|", "b", "|">>,
      <<"|", "-", "|", ":", "-", ":", "|">>,
      <<" ", "|", " ", "-", "-", "-", "-", ":", " ", "|", " ">>,
      <<"|", "*", "a", "*", "|", "U+1F600", "|">>,
      <<"|", "a", "b", "U+1F600", "|">>,
      <<"|", "+", "|", "U+4E2D", "|", "$", "|">>,
      <<"|", "|">>,
      <<"|", "*", "*", "b", "*", "*", "|", "a", "|">>,
      <<"|", ":", "-", "|">>,
      <<"a">> }

AppIdle ==
    /\ text_buffer = NewNoteText
    /\ preview_buffer = update_preview(NewNoteText, <<>>)
    /\ title = LoadedTitleOf(NewNoteText)
    /\ timeout_id = "None"
    /\ NoProcess

InitEstimate ==
    /\ AppIdle
    /\ call \in {[fn |-> "estimate_display_width", a |-> a, b |-> b, done |-> FALSE,
                  ret |-> <<>>] :
                    a \in StringsUpTo(EstimateAlphabet, MaxStrLen),
                    b \in StringsUpTo(EstimateAlphabet, MaxStrLen)}

\* estimate_display_width applied to a, to b and to a + b
ApplyEstimate ==
    /\ call.fn = "estimate_display_width"
    /\ ~call.done
    /\ call' = [call EXCEPT !.done = TRUE,
                            !.ret = [a |-> estimate_display_width(call.a),
                                     b |-> estimate_display_width(call.b),
                                     ab |-> estimate_display_width(call.a \o call.b)]]
    /\ UNCHANGED <<text_buffer, preview_buffer, title, timeout_id, app_vars>>

SpecEstimate == InitEstimate /\ [][ApplyEstimate]_vars

InitTable ==
    /\ AppIdle
    /\ call \in {[fn |-> "format_table", lines |-> ls, done |-> FALSE, ret |-> <<>>] :
                    ls \in ListsUpTo(TableLinePool, MaxTableLines)}

\* format_table applied to the drawn lines
ApplyFormatTable ==
    /\ call.fn = "format_table"
    /\ ~call.done
    /\ call' = [call EXCEPT !.done = TRUE, !.ret = format_table(call.lines)]
    /\ UNCHANGED <<text_buffer, preview_buffer, title, timeout_id, app_vars>>

SpecTable == InitTable /\ [][ApplyFormatTable]_vars

\* the longest line given to parse_inline_formatting, the example line apart
MaxInlineLen == 5

\* a delimiter character, a letter and a space
InlineAlphabet == {STAR, "a", " "}

\* the line "**bold** and *italic*"
BoldAndItalic ==
    <<STAR, STAR, "b", "o", "l", "d", STAR, STAR, " ", "a", "n", "d", " ",
      STAR, "i", "t", "a", "l", "i", "c", STAR>>

InitInline ==
    /\ AppIdle
    /\ call \in {[fn |-> "parse_inline_formatting", line |-> l, done |-> FALSE,
                  ret |-> <<>>] :
                    l \in StringsUpTo(InlineAlphabet, MaxInlineLen) \cup {BoldAndItalic}}

\* parse_inline_formatting applied to the drawn line and an empty preview buffer
ApplyInline ==
    /\ call.fn = "parse_inline_formatting"
    /\ ~call.done
    /\ call' = [call EXCEPT !.done = TRUE,
                            !.ret = parse_inline_formatting(call.line, <<>>)]
    /\ UNCHANGED <<text_buffer, preview_buffer, title, timeout_id, app_vars>>

SpecInline == InitInline /\ [][ApplyInline]_vars

\* the widest column pad_text is given
MaxPadWidth == 5

InitPad ==
    /\ AppIdle
    /\ call \in {[fn |-> "pad_text", text |-> t, width |-> w, align |-> a,
                  done |-> FALSE, ret |-> <<>>] :
                    t \in StringsUpTo(EstimateAlphabet, MaxStrLen),
                    w \in 0..MaxPadWidth,
                    a \in {"left", "right", "center"}}

\* pad_text applied to the drawn text, width and alignment
ApplyPad ==
    /\ call.fn = "pad_text"
    /\ ~call.done
    /\ call' = [call EXCEPT !.done = TRUE,
                            !.ret = pad_text(call.text, call.width, call.align)]
    /\ UNCHANGED <<text_buffer, preview_buffer, title, timeout_id, app_vars>>

SpecPad == InitPad /\ [][ApplyPad]_vars

------------------------------------------------------------------------------
(* update_preview pass by pass: the block loop and the cursor loop *)

\* the most body lines the pass-by-pass render is given
MaxRenderLines == 3

\* the body lines it is given: a table line, a header, prose, a line with a bold
\* and an italic pair, a line with a delimiter that is never closed, an empty line
RenderLinePool ==
    { <<"|", "a", "|", "b", "|">>,
      <<"#", " ", "T">>,
      <<"c">>,
      <<STAR, STAR, "b", STAR, STAR, " ", STAR, "i", STAR>>,
      <<STAR, "a">>,
      <<>> }

\* one pass of the cursor loop without the pos += 1 behind a literal character
CursorPassStuck(line, pos, buf) ==
    LET bold_end == find(line, <<STAR, STAR>>, pos + 2)
        ital_end == find(line, <<STAR>>, pos + 1)
    IN  IF startswith(line, <<STAR, STAR>>, pos) /\ bold_end # 0
        THEN [pos |-> bold_end + 2,
              buf |-> apply_tag_to_last(insert(buf, SubSeq(line, pos + 2, bold_end - 1)),
                                        "bold", bold_end - pos - 2)]
        ELSE IF /\ startswith(line, <<STAR>>, pos)
                /\ ~startswith(line, <<STAR, STAR>>, pos)
                /\ ital_end # 0
        THEN [pos |-> ital_end + 1,
              buf |-> apply_tag_to_last(insert(buf, SubSeq(line, pos + 1, ital_end - 1)),
                                        "italic", ital_end - pos - 1)]
        ELSE [pos |-> pos, buf |-> insert(buf, <<line[pos]>>)]

\* one pass of the cursor loop of parse_inline_formatting: the cursor and the
\* preview buffer it leaves
CursorPass(line, pos, buf) ==
    LET bold_end == find(line, <<STAR, STAR>>, pos + 2)
        ital_end == find(line, <<STAR>>, pos + 1)
    IN  IF startswith(line, <<STAR, STAR>>, pos) /\ bold_end # 0
        THEN [pos |-> bold_end + 2,
              buf |-> apply_tag_to_last(insert(buf, SubSeq(line, pos + 2, bold_end - 1)),
                                        "bold", bold_end - pos - 2)]
        ELSE IF /\ startswith(line, <<STAR>>, pos)
                /\ ~startswith(line, <<STAR, STAR>>, pos)
                /\ ital_end # 0
        THEN [pos |-> ital_end + 1,
              buf |-> apply_tag_to_last(insert(buf, SubSeq(line, pos + 1, ital_end - 1)),
                                        "italic", ital_end - pos - 1)]
        ELSE [pos |-> pos + 1, buf |-> insert(buf, <<line[pos]>>)]

\* the line goes to parse_inline_formatting: no table line, no header, a "*" in it
IsInlineLine(line) ==
    /\ ~is_table_line(line)
    /\ ~startswith(line, <<"#", " ">>, 1)
    /\ ~startswith(line, <<"#", "#", " ">>, 1)
    /\ contains(line, <<STAR, STAR>>) \/ contains(line, <<STAR>>)

\* update_preview has cleared the preview and stands before its block loop
InitRender ==
    /\ AppIdle
    /\ call \in {[fn |-> "update_preview", preview_lines |-> ls, i |-> 1, pos |-> 0,
                  buf |-> <<>>, pc |-> "block"] :
                    ls \in ListsUpTo(RenderLinePool, MaxRenderLines)}

\* one pass of the block loop over a table run, a header or a plain line
BlockPass ==
    /\ call.fn = "update_preview"
    /\ call.pc = "block"
    /\ call.i <= Len(call.preview_lines)
    /\ ~IsInlineLine(call.preview_lines[call.i])
    /\ call' = IF is_table_line(call.preview_lines[call.i])
               THEN [call EXCEPT
                       !.i = TableRunEnd(call.preview_lines, call.i),
                       !.buf = RenderTable(
                                   SubSeq(call.preview_lines, call.i,
                                          TableRunEnd(call.preview_lines, call.i) - 1),
                                   call.buf)]
               ELSE [call EXCEPT
                       !.i = call.i + 1,
                       !.buf = RenderLine(call.preview_lines[call.i], call.buf)]
    /\ UNCHANGED <<text_buffer, preview_buffer, title, timeout_id, app_vars>>

\* the block loop calls parse_inline_formatting: pos = 0
EnterInline ==
    /\ call.fn = "update_preview"
    /\ call.pc = "block"
    /\ call.i <= Len(call.preview_lines)
    /\ IsInlineLine(call.preview_lines[call.i])
    /\ call' = [call EXCEPT !.pc = "inline", !.pos = 1]
    /\ UNCHANGED <<text_buffer, preview_buffer, title, timeout_id, app_vars>>

\* one pass of the cursor loop
InlinePass ==
    /\ call.fn = "update_preview"
    /\ call.pc = "inline"
    /\ call.pos <= Len(call.preview_lines[call.i])
    /\ call' = [call EXCEPT
                  !.pos = CursorPass(call.preview_lines[call.i], call.pos, call.buf).pos,
                  !.buf = CursorPass(call.preview_lines[call.i], call.pos, call.buf).buf]
    /\ UNCHANGED <<text_buffer, preview_buffer, title, timeout_id, app_vars>>

\* the cursor loop is left, the newline inserted, and the block loop does i += 1
LeaveInline ==
    /\ call.fn = "update_preview"
    /\ call.pc = "inline"
    /\ call.pos > Len(call.preview_lines[call.i])
    /\ call' = [call EXCEPT !.pc = "block", !.pos = 0, !.i = call.i + 1,
                            !.buf = insert(call.buf, <<NL>>)]
    /\ UNCHANGED <<text_buffer, preview_buffer, title, timeout_id, app_vars>>

\* the block loop is left and update_preview returns
ReturnRender ==
    /\ call.fn = "update_preview"
    /\ call.pc = "block"
    /\ call.i > Len(call.preview_lines)
    /\ call' = [call EXCEPT !.pc = "done"]
    /\ UNCHANGED <<text_buffer, preview_buffer, title, timeout_id, app_vars>>

NextRender == BlockPass \/ EnterInline \/ InlinePass \/ LeaveInline \/ ReturnRender

SpecRender == InitRender /\ [][NextRender]_vars

------------------------------------------------------------------------------
(* The application: windows, open_notes, save timers, note directories *)

\* the texts the user leaves in an editor after an edit: a character typed
\* after the text of a new note, and that character deleted again
EditTexts == {NewNoteText \o <<"a">>, NewNoteText}

\* the application state as one record, for the handlers that call each other
App ==
    [windows |-> windows, open_notes |-> open_notes,
     manager_instance |-> manager_instance, tray_icon |-> tray_icon,
     sticky_notes |-> sticky_notes, glib |-> glib, disk |-> disk]

\* the handler has run: a is the state it leaves
Becomes(a) ==
    /\ windows' = a.windows
    /\ open_notes' = a.open_notes
    /\ manager_instance' = a.manager_instance
    /\ tray_icon' = a.tray_icon
    /\ sticky_notes' = a.sticky_notes
    /\ glib' = a.glib
    /\ disk' = a.disk
    /\ UNCHANGED <<text_buffer, preview_buffer, title, timeout_id, call>>

StickyNoteWindow(w) == [cls |-> "StickyNote", obj |-> w]
NoteManagerWindow(k) == [cls |-> "NoteManager", obj |-> k]

\* list.remove: the list without the first occurrence of x
Removed(list, x) ==
    LET hits == {k \in 1..Len(list) : list[k] = x}
        first == CHOOSE k \in hits : \A m \in hits : k <= m
    IN  IF hits = {} THEN list
        ELSE SubSeq(list, 1, first - 1) \o SubSeq(list, first + 1, Len(list))

\* the note ids save_session writes: one entry per StickyNote in windows
SessionOf(list) ==
    LET notes == SelectSeq(list, LAMBDA x : x.cls = "StickyNote")
    IN  [k \in 1..Len(notes) |-> notes[k].obj]

save_session(a) ==
    [a EXCEPT !.disk.session =
        [k \in 1..Len(SessionOf(a.windows)) |->
            a.sticky_notes[SessionOf(a.windows)[k]].note_id]]

\* Gtk.main_quit(): the main loop returns and the process ends; its windows,
\* its registry and its timeout sources end with it, the data directory stays
main_quit(a) ==
    [windows |-> <<>>, open_notes |-> [n \in NoteIds |-> 0], manager_instance |-> 0,
     tray_icon |-> FALSE, sticky_notes |-> <<>>,
     glib |-> [running |-> FALSE, sources |-> <<>>, last_id |-> 0], disk |-> a.disk]

\* on_window_destroy without the removal of the note from open_notes
on_window_destroy_keeping_entry(a, w) ==
    LET b == [a EXCEPT !.windows = Removed(a.windows, StickyNoteWindow(w))]
    IN  IF b.windows = <<>> /\ ~b.tray_icon /\ b.manager_instance = 0
        THEN main_quit(save_session(b))
        ELSE IF b.windows = <<>> THEN save_session(b)
        ELSE b

\* on_window_destroy for the StickyNote w
on_window_destroy(a, w) ==
    LET b == [a EXCEPT
                !.windows = Removed(a.windows, StickyNoteWindow(w)),
                !.open_notes[a.sticky_notes[w].note_id] = 0]
    IN  IF b.windows = <<>> /\ ~b.tray_icon /\ b.manager_instance = 0
        THEN main_quit(save_session(b))
        ELSE IF b.windows = <<>> THEN save_session(b)
        ELSE b

\* GLib.source_remove(id)
source_remove(a, id) ==
    [a EXCEPT !.glib.sources = SelectSeq(a.glib.sources, LAMBDA src : src.id # id)]

\* StickyNote.on_note_destroy
on_note_destroy(a, w) ==
    on_window_destroy(
        IF a.sticky_notes[w].timeout_id # 0
        THEN source_remove(a, a.sticky_notes[w].timeout_id) ELSE a,
        w)

\* Gtk.Widget.destroy() of a StickyNote: the "destroy" signal runs on_note_destroy
destroy(a, w) == on_note_destroy([a EXCEPT !.sticky_notes[w].destroyed = TRUE], w)

\* StickyNote.save_content
save_content(a, w) ==
    [a EXCEPT !.disk.text_md[a.sticky_notes[w].note_id] =
                  [exists |-> TRUE, text |-> a.sticky_notes[w].text_buffer],
              !.sticky_notes[w].timeout_id = 0]

\* StickyNote.__init__ for note n: load_content, then the registration
StickyNoteInit(a, n) ==
    LET w == Len(a.sticky_notes) + 1
    IN  [a EXCEPT
           !.sticky_notes = Append(@, [note_id |-> n,
                                       text_buffer |-> a.disk.text_md[n].text,
                                       timeout_id |-> 0,
                                       destroyed |-> FALSE]),
           !.windows = Append(@, StickyNoteWindow(w)),
           !.open_notes[n] = w]

\* delete_note
delete_note(a, n) ==
    LET b == IF a.open_notes[n] # 0 THEN destroy(a, a.open_notes[n]) ELSE a
    IN  [b EXCEPT !.disk.text_md[n] = NoDir]

\* NoteManager.__init__ by show_manager
show_manager(a) ==
    IF a.manager_instance # 0 THEN a
    ELSE LET k == Cardinality({m \in 1..Len(a.windows) : a.windows[m].cls = "NoteManager"}) + 1
         IN  [a EXCEPT !.manager_instance = k,
                       !.windows = Append(@, NoteManagerWindow(k))]

\* the note directories there are
ExistingNotes(a) == {n \in NoteIds : a.disk.text_md[n].exists}

\* the StickyNote objects whose window is not destroyed
LiveNotes == {w \in 1..Len(sticky_notes) : ~sticky_notes[w].destroyed}

\* create_new_note from the tray menu, the manager or the menu of a note
create_new_note ==
    /\ glib.running
    /\ tray_icon \/ manager_instance # 0 \/ LiveNotes # {}
    /\ Len(sticky_notes) < MaxWindows
    /\ LET existing == ExistingNotes(App)
           next_id == IF existing = {} THEN 1
                      ELSE (CHOOSE n \in existing : \A m \in existing : n >= m) + 1
       IN  /\ next_id <= MaxNotes
           /\ Becomes(StickyNoteInit(
                  [App EXCEPT !.disk.text_md[next_id] =
                                  [exists |-> TRUE, text |-> NewNoteText]],
                  next_id))

\* NoteManager.open_note for a note of the list that has no window
open_note(n) ==
    /\ glib.running
    /\ manager_instance # 0
    /\ n \in ExistingNotes(App)
    /\ open_notes[n] = 0
    /\ Len(sticky_notes) < MaxWindows
    /\ Becomes(StickyNoteInit(App, n))

\* the user changes the text of note window w: on_text_changed
NoteTextChanged(w, text) ==
    /\ glib.running
    /\ w \in LiveNotes
    /\ text # sticky_notes[w].text_buffer
    /\ glib.last_id < MaxTimers
    /\ LET a == [App EXCEPT !.sticky_notes[w].text_buffer = text]
           b == IF a.sticky_notes[w].timeout_id # 0
                THEN source_remove(a, a.sticky_notes[w].timeout_id) ELSE a
           id == b.glib.last_id + 1
       IN  Becomes([b EXCEPT !.glib.last_id = id,
                             !.glib.sources = Append(@, [id |-> id, obj |-> w]),
                             !.sticky_notes[w].timeout_id = id])

\* the oldest timeout source expires: save_content runs and returns False
TimerFires ==
    /\ glib.running
    /\ glib.sources # <<>>
    /\ LET src == Head(glib.sources)
       IN  Becomes([save_content(App, src.obj) EXCEPT !.glib.sources = Tail(glib.sources)])

\* the title-bar close of note window w: "delete-event" runs on_close, which
\* returns False, and the window is destroyed
on_close(w) ==
    /\ glib.running
    /\ w \in LiveNotes
    /\ Becomes(destroy(save_content(App, w), w))

\* the Close item of the menu of note window w
on_close_menu(w) ==
    /\ glib.running
    /\ w \in LiveNotes
    /\ Becomes(destroy(App, w))

\* "Delete This Note" of note window w, answered Yes: StickyNote.confirm_delete
confirm_delete(w) ==
    /\ glib.running
    /\ w \in LiveNotes
    /\ Becomes(delete_note(destroy(App, w), sticky_notes[w].note_id))

\* Delete of the manager's list, answered Yes: NoteManager.confirm_delete
manager_confirm_delete(n) ==
    /\ glib.running
    /\ manager_instance # 0
    /\ n \in ExistingNotes(App)
    /\ Becomes(delete_note(App, n))

\* "Show All Notes" of the tray menu or of a note's menu
ShowManager ==
    /\ glib.running
    /\ tray_icon \/ LiveNotes # {}
    /\ manager_instance = 0
    /\ Cardinality({m \in 1..Len(windows) : windows[m].cls = "NoteManager"}) < MaxManagers
    /\ Becomes(show_manager(App))

\* the manager window is closed: on_manager_destroy
on_manager_destroy ==
    /\ glib.running
    /\ manager_instance # 0
    /\ Becomes([App EXCEPT !.manager_instance = 0])

\* Exit of the tray menu
exit_app ==
    /\ glib.running
    /\ tray_icon
    /\ Becomes(main_quit([save_session(App) EXCEPT !.tray_icon = FALSE,
                                                   !.manager_instance = 0]))

\* open_session_notes: a StickyNote for every entry whose directory exists
RECURSIVE open_session_notes(_, _)
open_session_notes(a, entries) ==
    IF entries = <<>> THEN a
    ELSE open_session_notes(
             IF a.disk.text_md[Head(entries)].exists
             THEN StickyNoteInit(a, Head(entries)) ELSE a,
             Tail(entries))

\* a new process over the data directory as it is
Started(tray) ==
    [windows |-> <<>>, open_notes |-> [n \in NoteIds |-> 0], manager_instance |-> 0,
     tray_icon |-> tray, sticky_notes |-> <<>>,
     glib |-> [running |-> TRUE, sources |-> <<>>, last_id |-> 0], disk |-> disk]

\* the program is started: the tray icon where there is one, the notes of the
\* last session, else the latest note, else the manager
Main ==
    /\ ~glib.running
    /\ \E tray \in BOOLEAN :
         LET a == open_session_notes(Started(tray), disk.session)
         IN  IF a.sticky_notes # <<>> THEN Becomes(a)
             ELSE IF ExistingNotes(a) # {}
             THEN \E n \in ExistingNotes(a) : Becomes(StickyNoteInit(a, n))
             ELSE Becomes(show_manager(a))

\* the first start, over an empty data directory
InitApp ==
    /\ text_buffer = NewNoteText
    /\ preview_buffer = update_preview(NewNoteText, <<>>)
    /\ title = LoadedTitleOf(NewNoteText)
    /\ timeout_id = "None"
    /\ call = NoCall
    /\ windows = <<NoteManagerWindow(1)>>
    /\ open_notes = [n \in NoteIds |-> 0]
    /\ manager_instance = 1
    /\ tray_icon \in BOOLEAN
    /\ sticky_notes = <<>>
    /\ glib = [running |-> TRUE, sources |-> <<>>, last_id |-> 0]
    /\ disk = [text_md |-> [n \in NoteIds |-> NoDir], session |-> <<>>]

NextApp ==
    \/ create_new_note
    \/ \E n \in NoteIds : open_note(n)
    \/ \E w \in LiveNotes : \E text \in EditTexts : NoteTextChanged(w, text)
    \/ TimerFires
    \/ \E w \in LiveNotes : on_close(w)
    \/ \E w \in LiveNotes : on_close_menu(w)
    \/ \E w \in LiveNotes : confirm_delete(w)
    \/ \E n \in NoteIds : manager_confirm_delete(n)
    \/ ShowManager
    \/ on_manager_destroy
    \/ exit_app
    \/ Main

SpecApp == InitApp /\ [][NextApp]_vars

------------------------------------------------------------------------------
(* Properties of the renderer *)

\* the body lines update_preview renders, and the text and tags it left
Body == PreviewLines(text_buffer)
PreviewText == [k \in 1..Len(preview_buffer) |-> preview_buffer[k].ch]

\* a single run: text, every character carrying exactly the tags given
Run(text, tags) == [k \in 1..Len(text) |-> [ch |-> text[k], tags |-> tags]]

\* line i of the body is a table line with no table line next to it
LoneTableLine(i) ==
    /\ is_table_line(Body[i])
    /\ IF i > 1 THEN ~is_table_line(Body[i - 1]) ELSE TRUE
    /\ IF i < Len(Body) THEN ~is_table_line(Body[i + 1]) ELSE TRUE

\* C1: a table line with no adjacent table line is rendered as plain text: its
\* text followed by a newline appears in the preview.
C1_LoneTableLineIsPlainText ==
    \A i \in 1..Len(Body) :
        LoneTableLine(i) => contains(PreviewText, Body[i] \o <<NL>>)

RECURSIVE SumSeq(_)
SumSeq(q) == IF q = <<>> THEN 0 ELSE Head(q) + SumSeq(Tail(q))

\* format_table was applied to a run of two or more table lines
TableRunFormatted ==
    /\ call.fn = "format_table"
    /\ call.done
    /\ Len(call.lines) >= 2
    /\ \A k \in 1..Len(call.lines) : is_table_line(call.lines[k])

OutLines == split(call.ret, NL)
CallTable == TableOf(call.lines)
CallWidths == ColWidths(CallTable)
BorderLen == SumSeq([c \in 1..Len(CallWidths) |-> CallWidths[c] + 3]) + 1

\* the character count of a header or data row with the cells given: every
\* cell takes its column's width, plus the characters the estimate does not count
RowLen(cells) ==
    SumSeq([c \in 1..Len(CallWidths) |->
               CallWidths[c] + 3 + Len(cells[c]) - estimate_display_width(cells[c])]) + 1

\* the cells behind output line k: none for the three border lines
IsBorder(k) == k \in {1, 3, Len(OutLines)}
CellsOf(k) == IF k = 2 THEN CallTable.header_cells ELSE CallTable.data_rows[k - 3]

\* the character count of a row with the cells given in columns of the widths given
RowLenIn(cells, widths) ==
    SumSeq([c \in 1..Len(widths) |->
               widths[c] + 3 + Len(cells[c]) - estimate_display_width(cells[c])]) + 1

StartsWithFence(line) == startswith(line, FENCE, 1)

\* C3: a line starting with three backticks toggles InFencedCode and emits
\* nothing, and a line inside the fence is emitted verbatim as Monospace: the
\* body [fence, code line, fence] yields exactly one Monospace run, the code
\* line and its newline.
C3_FencedCodeIsMonospace ==
    (/\ Len(Body) = 3
     /\ StartsWithFence(Body[1])
     /\ ~StartsWithFence(Body[2])
     /\ StartsWithFence(Body[3]))
    => preview_buffer = Run(Body[2] \o <<NL>>, {"monospace"})

\* the length of the header marker a line starts with, 0 when it starts with none
HeaderMarkerLen(line) ==
    IF startswith(line, <<"#", " ">>, 1) THEN 2
    ELSE IF startswith(line, <<"#", "#", " ">>, 1) THEN 3
    ELSE IF startswith(line, <<"#", "#", "#", " ">>, 1) THEN 4
    ELSE 0

\* C4: a line starting with "# ", "## " or "### " is emitted as a single Header
\* run, the line without its marker (and its newline), at each of the three levels.
C4_HeaderLevels ==
    (Len(Body) = 1 /\ HeaderMarkerLen(Body[1]) > 0)
    => preview_buffer =
           Run(SubSeq(Body[1], HeaderMarkerLen(Body[1]) + 1, Len(Body[1])) \o <<NL>>,
               {"header"})

\* line is d, then a non-empty text free of emphasis characters, then d
Enclosed(line, d) ==
    /\ Len(line) > 2 * Len(d)
    /\ startswith(line, d, 1)
    /\ endswith(line, d)
    /\ \A k \in (Len(d) + 1)..(Len(line) - Len(d)) : line[k] \notin {STAR, "_"}

Inner(line, d) == SubSeq(line, Len(d) + 1, Len(line) - Len(d))

\* C5: underscore emphasis is recognised like asterisk emphasis: __x__ yields a
\* Bold run x and _x_ an Italic run x, the underscores not in the output.
C5_UnderscoreEmphasis ==
    /\ (Len(Body) = 1 /\ Enclosed(Body[1], <<"_", "_">>))
       => preview_buffer = Run(Inner(Body[1], <<"_", "_">>), {"bold"}) \o Run(<<NL>>, {})
    /\ (Len(Body) = 1 /\ Enclosed(Body[1], <<"_">>))
       => preview_buffer = Run(Inner(Body[1], <<"_">>), {"italic"}) \o Run(<<NL>>, {})

\* C6: the preview depends only on the text of the last render pass: whatever
\* edits and render passes came before, it is what a first render of the
\* editor text into an empty preview gives.
C6_PreviewDependsOnTextOnly ==
    preview_buffer = RenderFrom(PreviewLines(text_buffer), 1, <<>>)

\* C6's case: after an edit, a rendered table, header and emphasis over an
\* earlier preview that was not empty
C6_Witness ==
    /\ timeout_id = "pending"
    /\ Len(Body) = 3
    /\ \E k \in 1..Len(preview_buffer) : "monospace" \in preview_buffer[k].tags
    /\ \E k \in 1..Len(preview_buffer) : "bold" \in preview_buffer[k].tags

\* the header cells and the data rows parse_table_cells returns for the call's lines
DataStart == IF is_separator_line(call.lines[2]) THEN 3 ELSE 2
ParsedHeader == parse_table_cells(call.lines[1])
ParsedRow(k) == parse_table_cells(call.lines[DataStart + k - 1])
NumDataRows == Len(call.lines) - DataStart + 1

\* C7: every non-empty header cell and data cell of a table run appears
\* verbatim, untruncated, in the text format_table returns (the header cells in
\* its second line, the cells of data row k in line k + 3).
C7_CellsVerbatim ==
    TableRunFormatted =>
        /\ Len(OutLines) = NumDataRows + 4
        /\ \A c \in 1..Len(ParsedHeader) :
               ParsedHeader[c] # <<>> => contains(OutLines[2], ParsedHeader[c])
        /\ \A k \in 1..NumDataRows : \A c \in 1..Len(ParsedRow(k)) :
               ParsedRow(k)[c] # <<>> => contains(OutLines[k + 3], ParsedRow(k)[c])

\* C7's case: a cell with more characters than its column is wide
C7_Witness ==
    /\ TableRunFormatted
    /\ \E c \in 1..Len(ParsedHeader) : Len(ParsedHeader[c]) > CallWidths[c]
    /\ \E k \in 1..NumDataRows : \E c \in 1..Len(ParsedRow(k)) : ParsedRow(k)[c] # <<>>

EstimateApplied == call.fn = "estimate_display_width" /\ call.done

\* C8 as claimed: estimate(a + b) >= estimate(a) and estimate(a + b) >=
\* estimate(b) for all strings a and b.
C8_MonotoneUnderConcat ==
    EstimateApplied => call.ret.ab >= call.ret.a /\ call.ret.ab >= call.ret.b

\* no two stars of s enclose a non-empty stretch free of stars: s holds no
\* *x* (and so no **x**) for the emphasis-stripping step to remove
NoEmphasisPair(s) ==
    ~\E i \in 1..Len(s), j \in 1..Len(s) :
        /\ j > i + 1
        /\ s[i] = STAR
        /\ s[j] = STAR
        /\ \A k \in (i + 1)..(j - 1) : s[k] # STAR

\* C8 as amended: estimate(a + b) >= estimate(a) and estimate(a + b) >=
\* estimate(b) whenever a + b holds no star-delimited span (*x* or **x**).
C8_MonotoneWithoutEmphasis ==
    (EstimateApplied /\ NoEmphasisPair(call.a \o call.b))
    => call.ret.ab >= call.ret.a /\ call.ret.ab >= call.ret.b

\* C8's case: a concatenation with stars in it, none of them stripped
C8_Witness ==
    /\ EstimateApplied
    /\ NoEmphasisPair(call.a \o call.b)
    /\ count(call.a, STAR) > 0
    /\ count(call.b, STAR) > 0
    /\ call.ret.ab > call.ret.a
    /\ call.ret.ab > call.ret.b

\* C9: estimate_display_width returns a non-negative integer for every string
\* and 0 for the empty string.
C9_EstimateNonNegative ==
    EstimateApplied =>
        /\ call.ret.a \in Nat /\ call.ret.b \in Nat /\ call.ret.ab \in Nat
        /\ call.a = <<>> => call.ret.a = 0
        /\ call.b = <<>> => call.ret.b = 0
        /\ call.a \o call.b = <<>> => call.ret.ab = 0

\* C9's case: the empty string, and a string whose stars are all stripped
C9_Witness ==
    /\ EstimateApplied
    /\ call.a = <<>>
    /\ call.ret.a = 0
    /\ call.b = <<STAR, "a", STAR>>
    /\ call.ret.b = 1

------------------------------------------------------------------------------
(* Properties of parse_inline_formatting *)

InlineApplied == call.fn = "parse_inline_formatting" /\ call.done

\* the first position k >= from at which d occurs in line, 0 when there is none
FirstAt(line, d, from) ==
    LET hits == {k \in from..(Len(line) - Len(d) + 1) : SubSeq(line, k, k + Len(d) - 1) = d}
    IN  IF hits = {} THEN 0 ELSE CHOOSE k \in hits : \A m \in hits : k <= m

\* the runs parse_inline_formatting emits for the part of line after position k
RestRuns(line, k) == parse_inline_formatting(SubSeq(line, k + 1, Len(line)), <<>>)

\* C11: at the start of a line "**" is tested before "*" and the closing
\* delimiter is the first occurrence of the same delimiter to the right: a
\* line opening with a closed "**" starts with the Bold run of what stands
\* before the first later "**", a line opening with a closed single "*"
\* starts with the Italic run of what stands before the first later "*", the
\* rest of the line is rendered from behind the closing delimiter, and
\* "**bold** and *italic*" gives Bold "bold", Plain " and ", Italic "italic"
\* and the newline
C11_BoldBeforeItalic ==
    InlineApplied =>
        LET line == call.line
            bold_close == FirstAt(line, <<STAR, STAR>>, 3)
            ital_close == FirstAt(line, <<STAR>>, 2)
        IN  /\ line = BoldAndItalic =>
                call.ret = Run(<<"b", "o", "l", "d">>, {"bold"})
                           \o Run(<<" ", "a", "n", "d", " ">>, {})
                           \o Run(<<"i", "t", "a", "l", "i", "c">>, {"italic"})
                           \o Run(<<NL>>, {})
            /\ (startswith(line, <<STAR, STAR>>, 1) /\ bold_close # 0) =>
                call.ret = Run(SubSeq(line, 3, bold_close - 1), {"bold"})
                           \o RestRuns(line, bold_close + 1)
            /\ (/\ startswith(line, <<STAR>>, 1)
                /\ ~startswith(line, <<STAR, STAR>>, 1)
                /\ ital_close # 0) =>
                call.ret = Run(SubSeq(line, 2, ital_close - 1), {"italic"})
                           \o RestRuns(line, ital_close)

C11_Witness ==
    /\ InlineApplied
    /\ call.line = BoldAndItalic
    /\ \E k \in 1..Len(call.ret) : call.ret[k].tags = {"bold"}
    /\ \E k \in 1..Len(call.ret) : call.ret[k].tags = {"italic"}

------------------------------------------------------------------------------
(* Properties of format_table: widths, rows, alignments *)

\* the column widths read off a border line: the lengths of its stretches of
\* "U+2500" between the corners and the junctions mid, less the two of the margins
WidthsOn(border, mid) ==
    LET parts == split(SubSeq(border, 2, Len(border) - 1), mid)
    IN  [c \in 1..Len(parts) |-> Len(parts[c]) - 2]

TopWidths(out) == WidthsOn(split(out, NL)[1], "U+252C")

\* the lines with every Symbol-other character replaced by an ASCII letter
Asciified(lines) ==
    [k \in 1..Len(lines) |->
        [m \in 1..Len(lines[k]) |->
            IF category(lines[k][m]) = "So" THEN "a" ELSE lines[k][m]]]

AsciiLetters == {"a", "b", "c", "d", "x"}
SoCount(x) == Cardinality({m \in 1..Len(x) : category(x[m]) = "So"})

\* a cell of ASCII letters and at least one Symbol-other character
EmojiCell(x) ==
    /\ SoCount(x) >= 1
    /\ \A m \in 1..Len(x) : category(x[m]) = "So" \/ x[m] \in AsciiLetters

\* the header (k = 0) and the data rows as parse_table_cells gives them
ParsedRowOrHeader(k) == IF k = 0 THEN ParsedHeader ELSE ParsedRow(k)

\* the columns of the run that hold a cell with a Symbol-other character
EmojiColumns ==
    {c \in 1..Len(TopWidths(call.ret)) :
        \E k \in 0..NumDataRows :
            c <= Len(ParsedRowOrHeader(k)) /\ EmojiCell(ParsedRowOrHeader(k)[c])}

IsBorderLine(l, left, mid, right) ==
    /\ Len(l) >= 2
    /\ l[1] = left
    /\ l[Len(l)] = right
    /\ \A m \in 2..(Len(l) - 1) : l[m] \in {"U+2500", mid}

\* the cells a header or data row of the box shows, their padding taken off
RowCellsOn(l) ==
    LET parts == split(SubSeq(l, 2, Len(l) - 1), "U+2502")
    IN  [c \in 1..Len(parts) |-> strip(parts[c])]

\* a row filled up with empty cells to n cells
FilledTo(row, n) == [c \in 1..n |-> IF c <= Len(row) THEN row[c] ELSE <<>>]

\* C13: for a table run with n data rows format_table gives n + 4 lines: the
\* top border, the header row, the header separator, the n data rows in input
\* order, the bottom border; a second line that is a separator is not among
\* the data rows.
C13_BoxLines ==
    TableRunFormatted =>
        LET n == IF is_separator_line(call.lines[2])
                 THEN Len(call.lines) - 2 ELSE Len(call.lines) - 1
            first == Len(call.lines) - n
            out == OutLines
            cols == Len(WidthsOn(out[1], "U+252C"))
        IN  /\ Len(out) = n + 4
            /\ IsBorderLine(out[1], "U+250C", "U+252C", "U+2510")
            /\ out[2][1] = "U+2502"
            /\ RowCellsOn(out[2]) = FilledTo(parse_table_cells(call.lines[1]), cols)
            /\ IsBorderLine(out[3], "U+251C", "U+253C", "U+2524")
            /\ \A k \in 1..n :
                   /\ out[k + 3][1] = "U+2502"
                   /\ RowCellsOn(out[k + 3])
                          = FilledTo(parse_table_cells(call.lines[first + k]), cols)
            /\ IsBorderLine(out[n + 4], "U+2514", "U+2534", "U+2518")

\* C13's case: header, separator and one data row give a box of five lines
C13_Witness ==
    /\ TableRunFormatted
    /\ Len(call.lines) = 3
    /\ is_separator_line(call.lines[2])
    /\ \E c \in 1..Len(parse_table_cells(call.lines[2])) :
           parse_table_cells(call.lines[2])[c] # <<>>
    /\ \E c \in 1..Len(RowCellsOn(OutLines[4])) : RowCellsOn(OutLines[4])[c] # <<>>
    /\ Len(OutLines) = 5

------------------------------------------------------------------------------
(* Properties of parse_inline_formatting: what it keeps of the line *)

\* the positions of the delimiter characters of the recognised pairs of line
\* from position pos on: a pair is an opening "**", or a single "*", with the
\* first occurrence of the same delimiter to its right
RECURSIVE DelimiterPositions(_, _)
DelimiterPositions(line, pos) ==
    IF pos > Len(line) THEN {}
    ELSE LET bold_close == FirstAt(line, <<STAR, STAR>>, pos + 2)
             ital_close == FirstAt(line, <<STAR>>, pos + 1)
         IN  IF startswith(line, <<STAR, STAR>>, pos) /\ bold_close # 0
             THEN {pos, pos + 1, bold_close, bold_close + 1}
                  \cup DelimiterPositions(line, bold_close + 2)
             ELSE IF /\ line[pos] = STAR
                     /\ ~startswith(line, <<STAR, STAR>>, pos)
                     /\ ital_close # 0
             THEN {pos, ital_close} \cup DelimiterPositions(line, ital_close + 1)
             ELSE DelimiterPositions(line, pos + 1)

\* line without the characters at the positions drop
Without(line, drop) ==
    LET kept == SelectSeq([k \in 1..Len(line) |-> k], LAMBDA k : k \notin drop)
    IN  [m \in 1..Len(kept) |-> line[kept[m]]]

TextOf(buf) == [k \in 1..Len(buf) |-> buf[k].ch]
Stars(s) == {k \in 1..Len(s) : s[k] = STAR}

\* C14: the text parse_inline_formatting emits is the line without the
\* delimiter characters of its recognised pairs, followed by one newline: only
\* "*" characters are missing, every other character stands in its place and
\* order, and a line without a recognised pair (an opening delimiter without
\* its closing match included) is emitted whole as Plain text.
C14_TextPreserved ==
    InlineApplied =>
        LET line == call.line
            drop == DelimiterPositions(line, 1)
            text == TextOf(call.ret)
        IN  /\ text = Without(line, drop) \o <<NL>>
            /\ Len(text) = Len(line) - Cardinality(drop) + 1
            /\ Without(text, Stars(text)) = Without(line, Stars(line)) \o <<NL>>
            /\ drop \subseteq Stars(line)
            /\ drop = {} => call.ret = Run(line \o <<NL>>, {})
            /\ Cardinality(Stars(line)) <= 1 => drop = {}

\* C14's case: a line with a recognised pair and a delimiter left as Plain text
C14_Witness ==
    /\ InlineApplied
    /\ DelimiterPositions(call.line, 1) # {}
    /\ \E k \in 1..Len(call.ret) : call.ret[k].ch = STAR /\ call.ret[k].tags = {}
    /\ \E k \in 1..Len(call.ret) : call.ret[k].tags # {}

\* C15: after the column reconciliation of format_table the header, every
\* data row and the alignments list have exactly max_cols entries each, max_cols
\* being the largest cell count over the header and the data rows, also when
\* the separator has more or fewer cells than the header.
C15_ExactlyMaxCols ==
    TableRunFormatted =>
        LET t == CallTable
            counts == {Len(ParsedRowOrHeader(k)) : k \in 0..NumDataRows}
        IN  /\ \A n \in counts : t.max_cols >= n
            /\ t.max_cols \in counts
            /\ Len(t.header_cells) = t.max_cols
            /\ \A k \in 1..Len(t.data_rows) : Len(t.data_rows[k]) = t.max_cols
            /\ Len(t.alignments) = t.max_cols

\* a trimmed separator cell: an optional colon, one or more dashes, an optional colon
SeparatorShape(c) ==
    \E lead \in {<<>>, <<":">>}, trail \in {<<>>, <<":">>}, n \in 1..Len(c) :
        c = lead \o [k \in 1..n |-> "-"] \o trail

\* the trimmed cells between the outer pipes of a table line
TrimmedCells(line) ==
    LET parts == split(SubSeq(strip(line), 2, Len(strip(line)) - 1), PIPE)
    IN  [c \in 1..Len(parts) |-> strip(parts[c])]

SeparatorByShape(line) ==
    \A c \in 1..Len(TrimmedCells(line)) :
        TrimmedCells(line)[c] = <<>> \/ SeparatorShape(TrimmedCells(line)[c])

\* the alignment the claim gives column c under the separator line sep
AlignmentByShape(sep, c) ==
    LET cells == TrimmedCells(sep)
        cell == IF c <= Len(cells) THEN cells[c] ELSE <<>>
    IN  IF cell = <<>> THEN "left"
        ELSE IF cell[1] = ":" /\ cell[Len(cell)] = ":" THEN "center"
        ELSE IF cell[Len(cell)] = ":" THEN "right"
        ELSE "left"

Spaces(n) == [k \in 1..n |-> " "]

\* the stretch a cell takes in a row of the box: a margin, the cell with the
\* spaces its alignment asks for, a margin
CellStretch(cell, width, align) ==
    LET p == IF width > estimate_display_width(cell)
             THEN width - estimate_display_width(cell) ELSE 0
    IN  <<" ">>
        \o (IF align = "center" THEN Spaces(p \div 2) \o cell \o Spaces(p - (p \div 2))
            ELSE IF align = "right" THEN Spaces(p) \o cell
            ELSE cell \o Spaces(p))
        \o <<" ">>

\* the stretches of a header or data row of the box
StretchesOn(l) == split(SubSeq(l, 2, Len(l) - 1), "U+2502")

\* C16: the second line of a table run is a separator iff each of its
\* non-empty trimmed cells is an optional colon, dashes, an optional colon; then
\* the cells of column i are aligned Center when its separator cell has both
\* colons, Right when it has only the trailing colon, Left otherwise, and the
\* data rows start at the third line; when it is no separator every column is
\* aligned Left and the second line is the first data row.
C16_SeparatorAndAlignment ==
    TableRunFormatted =>
        LET sep == SeparatorByShape(call.lines[2])
            n == IF sep THEN Len(call.lines) - 2 ELSE Len(call.lines) - 1
            first == Len(call.lines) - n
            out == OutLines
            W == WidthsOn(out[1], "U+252C")
            aligned == CallTable.alignments
            align == [c \in 1..Len(W) |->
                         IF sep THEN AlignmentByShape(call.lines[2], c) ELSE "left"]
        IN  /\ sep <=> is_separator_line(call.lines[2])
            /\ Len(out) = n + 4
            /\ \A c \in 1..Len(W) : aligned[c] = align[c]
            /\ \A k \in 0..n :
                   LET stretches == StretchesOn(out[IF k = 0 THEN 2 ELSE k + 3])
                       row == FilledTo(parse_table_cells(
                                  call.lines[IF k = 0 THEN 1 ELSE first + k]), Len(W))
                   IN  /\ Len(stretches) = Len(W)
                       /\ \A c \in 1..Len(W) :
                              stretches[c] = CellStretch(row[c], W[c], align[c])

\* C16's case: a separator that centres one column and right-aligns another,
\* over cells narrower than their columns
C16_Witness ==
    /\ TableRunFormatted
    /\ is_separator_line(call.lines[2])
    /\ Len(call.lines) >= 3
    /\ \E c \in 1..Len(TopWidths(call.ret)) :
           /\ AlignmentByShape(call.lines[2], c) = "center"
           /\ Len(RowCellsOn(OutLines[4])[c]) \in 1..2

\* the estimates of the cells the header and the data rows have in column c
ColumnEstimates(c) ==
    {estimate_display_width(ParsedRowOrHeader(k)[c]) :
        k \in {q \in 0..NumDataRows : c <= Len(ParsedRowOrHeader(q))}}

\* C17: the width of each column of the box is the largest estimated width
\* among the column's header cell and data cells, and 3 when that is less; the
\* cells of the separator line do not count.
C17_ColumnWidths ==
    TableRunFormatted =>
        LET out == OutLines
            W == WidthsOn(out[1], "U+252C")
        IN  /\ WidthsOn(out[3], "U+253C") = W
            /\ WidthsOn(out[Len(out)], "U+2534") = W
            /\ \A c \in 1..Len(W) :
                   LET estimates == ColumnEstimates(c)
                   IN  /\ W[c] >= 3
                       /\ \A e \in estimates : W[c] >= e
                       /\ W[c] \in estimates \cup {3}

\* C17's case: a separator cell estimated wider than the column below it
C17_Witness ==
    /\ TableRunFormatted
    /\ is_separator_line(call.lines[2])
    /\ Len(call.lines) >= 3
    /\ \E c \in 1..Len(TopWidths(call.ret)) :
           /\ c <= Len(parse_table_cells(call.lines[2]))
           /\ estimate_display_width(parse_table_cells(call.lines[2])[c])
                  > TopWidths(call.ret)[c]
           /\ ColumnEstimates(c) # {0}

------------------------------------------------------------------------------
(* Properties of pad_text *)

PadApplied == call.fn = "pad_text" /\ call.done

\* the spaces pad_text has to add: max(0, width - estimate(text))
SpacesOwed ==
    IF call.width > estimate_display_width(call.text)
    THEN call.width - estimate_display_width(call.text) ELSE 0

\* C18: pad_text returns the text unchanged with max(0, width - estimate)
\* spaces around it: all behind it for left, all before it for right, and for
\* center the half rounded down before it and the rest behind it; a text as
\* wide as the width or wider comes back as it is.
C18_PadText ==
    PadApplied =>
        LET p == SpacesOwed
        IN  /\ call.align = "left" => call.ret = call.text \o Spaces(p)
            /\ call.align = "right" => call.ret = Spaces(p) \o call.text
            /\ call.align = "center" =>
                   call.ret = Spaces(p \div 2) \o call.text \o Spaces(p - (p \div 2))
            /\ Len(call.ret) = Len(call.text) + p
            /\ estimate_display_width(call.text) >= call.width => call.ret = call.text

\* C18's case: a centred text that is owed an odd number of spaces
C18_Witness ==
    /\ PadApplied
    /\ call.align = "center"
    /\ call.text # <<>>
    /\ SpacesOwed % 2 = 1
    /\ call.ret[Len(call.ret)] = " "

------------------------------------------------------------------------------
(* Termination of a render *)

Rendering == call.fn = "update_preview"

\* what one step of a render does to the line index and the cursor
RenderAdvances ==
    /\ (call.pc = "block" /\ call'.pc = "block") =>
           /\ call'.i >= call.i + 1
           /\ is_table_line(call.preview_lines[call.i]) =>
                  /\ \A m \in call.i..(call'.i - 1) : is_table_line(call.preview_lines[m])
                  /\ call'.i <= Len(call.preview_lines) =>
                         ~is_table_line(call.preview_lines[call'.i])
    /\ (call.pc = "block" /\ call'.pc = "inline") => call'.i = call.i
    /\ (call.pc = "inline" /\ call'.pc = "inline") =>
           /\ call'.pos >= call.pos + 1
           /\ call'.i = call.i
    /\ (call.pc = "inline" /\ call'.pc = "block") => call'.i = call.i + 1
    /\ call.pc = "done" => call'.pc = "done"

\* what is left to do: the characters and line ends from line i on, less the
\* cursor's way into line i
RenderRest(c) ==
    SumSeq([m \in 1..(Len(c.preview_lines) - c.i + 1) |->
               Len(c.preview_lines[c.i + m - 1]) + 3])
    - c.pos + (IF c.pc = "done" THEN 0 ELSE 1)

\* C19: every render comes to its end: each pass of the block loop moves the
\* line index on by one at least (over the whole run for a table run), each
\* pass of the cursor loop moves the cursor on by one character at least, the
\* index and the cursor stay within the document, and what is left to do gets
\* less with every step until the render returns.
C19_RenderTerminates ==
    [][Rendering =>
          /\ RenderAdvances
          /\ call'.i \in 1..(Len(call.preview_lines) + 1)
          /\ call'.pc = "inline" =>
                 call'.pos \in 1..(Len(call.preview_lines[call.i]) + 1)
          /\ call'.pc = "done" <=> (call.pc = "block" /\ call.i > Len(call.preview_lines))
          /\ RenderRest(call') >= 0
          /\ RenderRest(call') < RenderRest(call)]_vars

\* C19's case: a render that went through a table run and an unclosed delimiter
\* and has returned
C19_Witness ==
    /\ Rendering
    /\ call.pc = "done"
    /\ \E k \in 1..Len(call.buf) : "monospace" \in call.buf[k].tags
    /\ \E k \in 1..Len(call.buf) : call.buf[k].ch = STAR

\* the passes leave the preview update_preview leaves
RenderPassesAgree ==
    (Rendering /\ call.pc = "done") =>
        call.buf = RenderFrom(call.preview_lines, 1, <<>>)

------------------------------------------------------------------------------
(* Table runs in the preview *)

\* lines i..j-1 of body are a maximal run of two or more table lines
MaximalTableRun(body, i, j) ==
    /\ j - i >= 2
    /\ \A m \in i..(j - 1) : is_table_line(body[m])
    /\ i > 1 => ~is_table_line(body[i - 1])
    /\ j <= Len(body) => ~is_table_line(body[j])

\* what the renderer emits for a stretch of body lines on their own
Rendered(ls) == RenderFrom(ls, 1, <<>>)

\* C20: a maximal run of two or more table lines of the body is one block of
\* the preview: the preview is what the lines before the run give, then one
\* Monospace run that is the formatted table and a blank line, then what the
\* lines after the run give; no line of the run is shown a second time.
C20_TableRunIsOneBlock ==
    LET body == Body
    IN  \A i \in 1..Len(body) : \A j \in (i + 2)..(Len(body) + 1) :
            MaximalTableRun(body, i, j) =>
                LET table == format_table(SubSeq(body, i, j - 1))
                IN  /\ table # <<>>
                    /\ preview_buffer =
                           Rendered(SubSeq(body, 1, i - 1))
                           \o Run(table \o <<NL, NL>>, {"monospace"})
                           \o Rendered(SubSeq(body, j, Len(body)))

\* C20's case: a run of table lines with a line of another kind behind it
C20_Witness ==
    /\ Len(Body) = 3
    /\ MaximalTableRun(Body, 1, 3)
    /\ Body[3] # <<>>
    /\ preview_buffer # <<>>
    /\ preview_buffer[1].tags = {"monospace"}
    /\ "monospace" \notin preview_buffer[Len(preview_buffer)].tags

------------------------------------------------------------------------------
(* The title lines and the preview *)

\* the text with its first two lines emptied
WithoutTitleLines(text) ==
    LET lines == split(text, NL)
    IN  <<NL, NL>> \o join(<<NL>>, [k \in 1..(Len(lines) - 2) |-> lines[k + 2]])

\* C21: the first two lines of the editor text are left out of the preview: the
\* preview is what the lines from the third on give, it is the preview of the
\* same text with its first two lines emptied, and it is empty when the text
\* has no third line.
C21_TitleLinesExcluded ==
    LET lines == split(text_buffer, NL)
    IN  /\ Len(lines) <= 2 => preview_buffer = <<>>
        /\ Len(lines) > 2 =>
               /\ preview_buffer = Rendered([k \in 1..(Len(lines) - 2) |-> lines[k + 2]])
               /\ preview_buffer = update_preview(WithoutTitleLines(text_buffer), <<>>)

\* C21's case: two table lines as title lines, which the preview does not show,
\* and a body that it does show
C21_Witness ==
    LET lines == split(text_buffer, NL)
    IN  /\ Len(lines) >= 3
        /\ is_table_line(lines[1])
        /\ is_table_line(lines[2])
        /\ lines[3] # <<>>
        /\ preview_buffer # <<>>
        /\ \A k \in 1..Len(preview_buffer) : "monospace" \notin preview_buffer[k].tags

------------------------------------------------------------------------------
(* Properties of the application *)

\* the save timer of note window w is pending in the application state a
SavePending(a, w) ==
    /\ a.glib.running
    /\ w <= Len(a.sticky_notes)
    /\ ~a.sticky_notes[w].destroyed
    /\ a.sticky_notes[w].timeout_id # 0
    /\ \E k \in 1..Len(a.glib.sources) : a.glib.sources[k].id = a.sticky_notes[w].timeout_id

\* the application state after the step
AppNext ==
    [windows |-> windows', open_notes |-> open_notes',
     manager_instance |-> manager_instance', tray_icon |-> tray_icon',
     sticky_notes |-> sticky_notes', glib |-> glib', disk |-> disk']

\* C22: an edit is written to the note's text.md whichever way its pending save
\* ends: when a step ends the pending save of a note window (the timer fires,
\* the window is closed from the title bar or from the menu, another note is
\* deleted, the tray's Exit ends the process) and leaves the note's directory,
\* text.md holds the window's text.
C22_EditsAreSaved ==
    [][\A w \in 1..Len(sticky_notes) :
          (/\ SavePending(App, w)
           /\ ~SavePending(AppNext, w)
           /\ disk'.text_md[sticky_notes[w].note_id].exists)
          => disk'.text_md[sticky_notes[w].note_id].text = sticky_notes[w].text_buffer]_vars

\* C23: a deleted note stays deleted: a step after which a note directory is
\* there that was not there before is create_new_note making a new note, with
\* its new window and the text of a new note; no save_content of a timer left
\* over from a window of the deleted note writes it back.
C23_DeletedStaysDeleted ==
    [][\A n \in NoteIds :
          (~disk.text_md[n].exists /\ disk'.text_md[n].exists)
          => /\ Len(sticky_notes') = Len(sticky_notes) + 1
             /\ open_notes'[n] = Len(sticky_notes')
             /\ disk'.text_md[n].text = NewNoteText]_vars

\* the StickyNote objects in the global windows list
NoteWindows == {windows[k].obj : k \in {m \in 1..Len(windows) : windows[m].cls = "StickyNote"}}

\* C24: there is at most one StickyNote window per note id, and open_notes
\* maps exactly the note ids of the StickyNote windows in windows to those
\* windows: every window of the list is a live one entered once and registered
\* under its note id, and every entry of open_notes is a window of the list.
C24_RegistryMatchesWindows ==
    /\ \A k, m \in 1..Len(windows) : windows[k] = windows[m] => k = m
    /\ \A w \in NoteWindows :
          /\ ~sticky_notes[w].destroyed
          /\ open_notes[sticky_notes[w].note_id] = w
    /\ \A n \in NoteIds : open_notes[n] # 0 => open_notes[n] \in NoteWindows

\* a note closed and opened again: its second window is the registered one
C24_Witness ==
    /\ Len(sticky_notes) = 2
    /\ sticky_notes[1].note_id = sticky_notes[2].note_id
    /\ sticky_notes[1].destroyed
    /\ NoteWindows = {2}
    /\ open_notes[sticky_notes[2].note_id] = 2

====
